---- MODULE Spec2Model ----
(***************************************************************************)
(* Blood-request matching and status-transition engine of the blood        *)
(* donation backend (src/index.js): the POST, PATCH and DELETE handlers of *)
(* /blood-requests over the "blood-requests" collection.                   *)
(*                                                                         *)
(* A stored document is modelled by the fields the handlers read or write: *)
(*   requester, donor : the e-mail of requester.email / donor.email        *)
(*   status           : NoStatus, or [current, history]                    *)
(*   donationStatus, recipient, donationInfo, location, createdAt,         *)
(*   updatedAt        : the fields of the same names                       *)
(* where a history entry is [status, changedAt, changedBy : [email, role]].*)
(* Request bodies are drawn from the fields of that schema; a body field   *)
(* the client left out is the value JavaScript reads as undefined.         *)
(*                                                                         *)
(* A handler is an operator from the collection and the call to its        *)
(* outcome: the response it sends and the collection it leaves. Under Spec *)
(* the calls run one at a time: every step is one whole handler.           *)
(*                                                                         *)
(* Spec        : create, patch, delete and list calls on a few requests,   *)
(*               all made at StartTime with no other field in the body     *)
(* SpecLedger  : one request taken through a long run of transitions       *)
(* SpecFields  : one request, patched at several instants with bodies that *)
(*               name other fields of the document                         *)
(* SpecRespond : the calls of respond (src/utils/helpers.js)               *)
(* SpecRace    : the calls of two clients overlap: every findOne,          *)
(*               insertOne, updateOne and deleteOne of a handler is a step *)
(*               of its own, and a handler carries what it read to its     *)
(*               write                                                     *)
(*                                                                         *)
(* paginate is imported from ./utils/helpers but is not part of            *)
(* src/utils/helpers.js; it follows the pagination contract of the         *)
(* specification (section 6).                                              *)
(*                                                                         *)
(* src/unnamed/part_000 and the tail of src/utils/helpers.js are earlier   *)
(* revisions of the same server; the model follows src/index.js.           *)
(***************************************************************************)
EXTENDS Integers, Sequences, FiniteSets, TLC

\* ------------------------------------------------------------------ bounds
\* Number of documents a run inserts (ObjectIds are never reused).
MaxReq == 2
\* Number of status.history entries the collection holds, all documents
\* together.
MaxHist == 3

\* ------------------------------------------------------------------ inputs
\* A field that is missing from the body (undefined in JavaScript), and a
\* field the body sets to null.
NoEmail == "undefined"
NullEmail == "null"
NoRole == "undefined"
NoStatus == [absent |-> TRUE]
\* A PATCH body without status, or with an empty status.current.
NoStatusValue == "undefined"

\* The identities a call carries in role/email: the users a@x and b@x, and
\* c@x as admin and as volunteer.
ValidActors ==
  { [email |-> "a@x", role |-> "donor"],
    [email |-> "b@x", role |-> "donor"],
    [email |-> "c@x", role |-> "admin"],
    [email |-> "c@x", role |-> "volunteer"] }

NoEmailActor == [email |-> NoEmail, role |-> "admin"]
NoRoleActor == [email |-> "a@x", role |-> NoRole]

SystemActor == [email |-> "system", role |-> "system"]

\* Values of new Date().toISOString(): the instant the first request is made
\* at, and a later one.
StartTime == 0
Times == {StartTime, StartTime + 1}

\* The status object a client sends with a new request.
FreshStatus(s) ==
  [current |-> s,
   history |-> <<[status |-> s, changedAt |-> StartTime,
                  changedBy |-> SystemActor]>>]

\* A request body of POST /blood-requests, sent at StartTime: the client
\* fills donationStatus from status.current, and the patient, the donation
\* details and the location it asks for.
Body(requester, donor, status) ==
  [requester |-> requester, donor |-> donor, status |-> status,
   donationStatus |-> IF status = NoStatus THEN NoStatusValue ELSE status.current,
   recipient |-> "recipient0",
   donationInfo |-> "donationInfo0",
   location |-> "location0",
   createdAt |-> StartTime,
   updatedAt |-> StartTime]

\* The rest of a PATCH body (updateData) when the body has no other field.
NoUpdateData == <<>>

\* Request bodies of POST /blood-requests: direct requests to the donor b@x
\* from two requesters, a request that arrives already in progress, a request
\* for oneself, a body with neither e-mail, an open request without a donor, a
\* body whose requester.email is null, and a body without a status object.
CreateBodies ==
  { Body("a@x", "b@x", FreshStatus("pending")),
    Body("a@x", "b@x", FreshStatus("inprogress")),
    Body("c@x", "b@x", FreshStatus("pending")),
    Body("a@x", "a@x", FreshStatus("pending")),
    Body(NoEmail, NoEmail, FreshStatus("pending")),
    Body("a@x", NoEmail, FreshStatus("pending")),
    Body(NullEmail, NoEmail, FreshStatus("pending")),
    Body("b@x", "a@x", NoStatus) }

Ids == 1 .. MaxReq
\* An id string that new ObjectId(id) rejects.
BadId == 0

PatchCall(id, actor, action, status) ==
  [id |-> id, actor |-> actor, action |-> action, status |-> status]

\* Values of status.current in the body of an update: none, a status, and a
\* word that is no status.
UpdateStatuses == {NoStatusValue, "inprogress", "archived"}

\* Values of action that are none of update, complete, cancel: another word,
\* and a body without action.
NoAction == "undefined"
UnknownActions == {"archive", NoAction}

\* Calls of PATCH /blood-requests/:id: every action by every identity on
\* every id, an unknown action and no action on every id, and the malformed
\* calls (no email, no role, an id that is no ObjectId).
PatchCalls ==
  { PatchCall(id, actor, "update", status) :
      id \in Ids, actor \in ValidActors, status \in UpdateStatuses }
  \cup
  { PatchCall(id, actor, action, NoStatusValue) :
      id \in Ids, actor \in ValidActors, action \in {"complete", "cancel"} }
  \cup
  { PatchCall(1, NoEmailActor, "complete", NoStatusValue),
    PatchCall(1, NoRoleActor, "cancel", NoStatusValue),
    PatchCall(1, NoRoleActor, "archive", NoStatusValue),
    PatchCall(BadId, [email |-> "c@x", role |-> "admin"], "archive", NoStatusValue),
    PatchCall(BadId, [email |-> "c@x", role |-> "admin"], "cancel", NoStatusValue) }
  \cup
  { PatchCall(id, [email |-> "c@x", role |-> "admin"], action, NoStatusValue) :
      id \in Ids, action \in UnknownActions }
  \cup
  { PatchCall(1, [email |-> "b@x", role |-> "donor"], "archive", "inprogress") }

DeleteCall(id, actor) == [id |-> id, actor |-> actor]

\* Calls of DELETE /blood-requests/:id; role is optional there.
DeleteCalls ==
  { DeleteCall(id, actor) : id \in Ids, actor \in ValidActors \cup {NoRoleActor} }
  \cup
  { DeleteCall(1, NoEmailActor),
    DeleteCall(BadId, [email |-> "c@x", role |-> "admin"]) }

ListCall(email, role, page, limit) ==
  [email |-> email, role |-> role, page |-> page, limit |-> limit]

\* The default page and limit of a list call.
DefaultPage == 1
DefaultLimit == 10

\* Calls of GET /blood-requests: by the e-mail of a requester, of a donor and
\* of nobody, one request a page, and without e-mail by every role and by
\* none.
ListCalls ==
  { ListCall(email, "donor", DefaultPage, DefaultLimit) :
      email \in {"a@x", "b@x", "z@x"} }
  \cup
  { ListCall("a@x", NoRole, page, 1) : page \in {1, 2} }
  \cup
  { ListCall(NoEmail, role, DefaultPage, DefaultLimit) :
      role \in {"admin", "volunteer", "donor", NoRole} }
  \cup
  { ListCall("c@x", "admin", DefaultPage, DefaultLimit) }

VARIABLES
  requests,   \* bloodRequestsCollection: stored id -> document
  nextId,     \* the next ObjectId insertOne assigns
  sent,       \* under SpecRespond: a call of respond and the reply it sent
  inflight    \* under SpecRace: the call each client has in progress

vars == <<requests, nextId, sent, inflight>>

\* ----------------------------------------------------------------- helpers
\* Values of the data argument of respond: null, undefined, an array and any
\* other value.
Null == [kind |-> "null"]
Undefined == [kind |-> "undefined"]
ArrayOf(items) == [kind |-> "array", items |-> items]
ObjectOf(value) == [kind |-> "object", value |-> value]

\* The meta argument {}.
EmptyMeta == <<>>

SuccessBelow400(status) == status >= 200 /\ status < 400

\* status >= 200 && status < 300
Success(status) == status >= 200 /\ status < 300

\* respond(res, status, message, data = null, meta = {}): the reply sent by
\* res.status(status).json(response). status is the HTTP status of the reply,
\* the other fields are those of its JSON body; data and meta are fields of
\* the body only when the function adds them.
respondWith(status, message, dataArg, metaArg) ==
  LET data == IF dataArg = Undefined THEN Null ELSE dataArg
      meta == metaArg
      response == [success |-> Success(status), message |-> message]
      withData ==
        IF data.kind = "array" THEN [data |-> data] @@ response
        ELSE IF data # Null /\ data # Undefined THEN [data |-> data] @@ response
        ELSE response
      withMeta ==
        IF Cardinality(DOMAIN meta) > 0 THEN [meta |-> meta] @@ withData
        ELSE withData
  IN  [status |-> status] @@ withMeta

\* respond(res, status, message): data and meta take their defaults.
respond(status, message) == respondWith(status, message, Undefined, EmptyMeta)

\* The outcome of a call: its response and the collection after it.
Outcome(status, message, reqs, nid) ==
  [resp |-> respond(status, message), requests |-> reqs, nextId |-> nid]

RejectAfterWrite(status, message) ==
  Outcome(status, message,
          [i \in DOMAIN requests |-> [requests[i] EXCEPT !.updatedAt = StartTime + 1]],
          nextId)

\* A response that follows no write.
Reject(status, message) == Outcome(status, message, requests, nextId)

\* Documents matching the filter of findOne for existingPair. The filter's
\* keys are "requester?.email" and "donor?.email": paths through fields named
\* "requester?" and "donor?", which no stored document has. A path that is
\* missing from a document matches only the value null, and the driver sends
\* an undefined filter value as null.
Nullish(v) == v \in {NoEmail, NullEmail}

ExistingPair(body) ==
  { id \in DOMAIN requests :
      /\ Nullish(body.requester)
      /\ Nullish(body.donor)
      /\ requests[id].status # NoStatus
      /\ requests[id].status.current \in {"pending", "inprogress"} }

\* Documents matching the filter of findOne for donorBusy.
DonorBusy(body) ==
  { id \in DOMAIN requests :
      /\ Nullish(body.donor)
      /\ requests[id].status # NoStatus
      /\ requests[id].status.current = "inprogress" }

SelfDonationInverted(body) == body.requester # body.donor

\* newBloodRequest.requester?.email === newBloodRequest.donor?.email
SelfDonation(body) == body.requester = body.donor

\* The document insertOne stores: the request body as it came.
NewDocument(body) == body

\* ------------------------------------------------------------------ create
\* POST /blood-requests
Create(body) ==
  IF SelfDonation(body)
    THEN Reject(403, "You cannot create a blood request for yourself")
  ELSE IF ExistingPair(body) # {}
    THEN Reject(409, "This donor is already assisting with your active request")
  ELSE IF DonorBusy(body) # {}
    THEN Reject(409, "This donor is currently helping another patient")
  ELSE Outcome(201, "Blood request created successfully",
               requests @@ (nextId :> NewDocument(body)), nextId + 1)

\* -------------------------------------------------------------------- list
\* A stored document as find returns it.
Found(id) == [_id |-> id] @@ requests[id]

\* sort: {createdAt: -1}: the ids by descending createdAt, ids with the same
\* createdAt in the order of their insertion.
RECURSIVE Sorted(_)
Sorted(ids) ==
  IF ids = {} THEN <<>>
  ELSE LET first == CHOOSE i \in ids : \A j \in ids :
                      \/ requests[i].createdAt > requests[j].createdAt
                      \/ requests[i].createdAt = requests[j].createdAt /\ i <= j
       IN  <<first>> \o Sorted(ids \ {first})

\* paginate(collection, query, {page, limit, sort}) of ./utils/helpers, by
\* the pagination contract of spec section 6: the page of the documents
\* matching the query, and meta = {total, page, limit, totalPages, hasNext,
\* hasPrev}.
paginate(ids, page, limit) ==
  LET total == Cardinality(ids)
      sorted == Sorted(ids)
      skip == (page - 1) * limit
      last == IF skip + limit < total THEN skip + limit ELSE total
      totalPages == (total + limit - 1) \div limit
  IN  [items |-> [n \in 1 .. (IF last > skip THEN last - skip ELSE 0) |->
                    Found(sorted[skip + n])],
       meta |-> [total |-> total, page |-> page, limit |-> limit,
                 totalPages |-> totalPages,
                 hasNext |-> page < totalPages,
                 hasPrev |-> page > 1]]

ListQueryRequesterOnly(email) ==
  { id \in DOMAIN requests : requests[id].requester = email }

\* {$or: [{"requester.email": email}, {"donor.email": email}]}
ListQuery(email) ==
  { id \in DOMAIN requests :
      requests[id].requester = email \/ requests[id].donor = email }

\* The reply to a list call whose query matches ids.
Listed(ids, page, limit) ==
  LET result == paginate(ids, page, limit)
  IN  [resp |-> respondWith(200, "Donation requests retrieved successfully",
                            ArrayOf(result.items), result.meta),
       requests |-> requests,
       nextId |-> nextId]

\* GET /blood-requests?email=&role=&page=&limit=
List(email, role, page, limit) ==
  IF email # NoEmail
    THEN Listed(ListQuery(email), page, limit)
  ELSE IF role = "admin" \/ role = "volunteer"
    THEN Listed(DOMAIN requests, page, limit)
  ELSE Reject(400, "Email or valid role is required to fetch donation requests")

\* ------------------------------------------------------------------- patch
\* The entry the three actions append to status.history.
HistoryEntry(status, actor, currentTime) ==
  [status |-> status, changedAt |-> currentTime, changedBy |-> actor]

AppendEntryFirst(history, entry) == <<entry>> \o history

\* [...(existingRequest.status.history || []), entry]
AppendEntry(history, entry) == Append(history, entry)

\* case "update": !isRequester && role !== "admin" && role !== "volunteer"
UpdateForbidden(doc, actor) ==
  /\ doc.requester # actor.email
  /\ actor.role # "admin"
  /\ actor.role # "volunteer"

CompleteForbiddenNever(doc, actor) == FALSE

\* case "complete": !isRequester && !isDonor && role is not admin/volunteer
CompleteForbidden(doc, actor) ==
  /\ doc.requester # actor.email
  /\ doc.donor # actor.email
  /\ actor.role # "admin"
  /\ actor.role # "volunteer"

CancelForbiddenAsUpdate(doc, actor) ==
  /\ doc.requester # actor.email
  /\ actor.role # "admin"
  /\ actor.role # "volunteer"

\* case "cancel": !isRequester && role !== "admin"
CancelForbidden(doc, actor) ==
  /\ doc.requester # actor.email
  /\ actor.role # "admin"

\* existingRequest.status?.current
CurrentStatus(doc) ==
  IF doc.status = NoStatus THEN NoStatusValue ELSE doc.status.current

\* case "complete": currentStatus !== "inprogress"
CompleteIllegal(currentStatus) == currentStatus # "inprogress"

CancelIllegalLoose(currentStatus) ==
  currentStatus \notin {"pending", "inprogress", "completed"}

\* case "cancel": !["pending", "inprogress"].includes(currentStatus)
CancelIllegal(currentStatus) == currentStatus \notin {"pending", "inprogress"}

\* updateOne({_id}, {$set: fields}): every field named is overwritten, the
\* others stay.
SetFields(doc, fields) ==
  [f \in DOMAIN doc \cup DOMAIN fields |->
     IF f \in DOMAIN fields THEN fields[f] ELSE doc[f]]

\* ...(status?.current && {status: {current, history}})
StatusFields(doc, status, actor, currentTime) ==
  IF status = NoStatusValue
    THEN <<>>
    ELSE [status |->
            [current |-> status,
             history |-> AppendEntry(doc.status.history,
                                     HistoryEntry(status, actor, currentTime))]]

\* finalUpdate applied by $set: the other fields of the body, then updatedAt,
\* then, with a status in the body, the whole status object; a later key of
\* the object literal overrides an earlier one.
FinalUpdate(doc, status, actor, updateData, currentTime) ==
  SetFields(doc, StatusFields(doc, status, actor, currentTime)
                   @@ [updatedAt |-> currentTime]
                   @@ updateData)

\* completeUpdate / cancelUpdate applied by $set.
TransitionUpdate(doc, target, actor, currentTime) ==
  [doc EXCEPT !.status =
         [current |-> target,
          history |-> AppendEntry(doc.status.history,
                                  HistoryEntry(target, actor, currentTime))],
              !.updatedAt = currentTime]

\* existingRequest.status.history throws a TypeError when the stored document
\* has no status object; the handler's catch answers 500.
Throws(doc) == doc.status = NoStatus

Store(id, doc, message) ==
  Outcome(200, message, [requests EXCEPT ![id] = doc], nextId)

InvalidActionNever(action) == FALSE

\* !["update", "complete", "cancel"].includes(action)
InvalidAction(action) == action \notin {"update", "complete", "cancel"}

\* PATCH /blood-requests/:id with the body {role, email, action, status,
\* ...updateData}, handled at currentTime.
PatchAt(id, actor, action, status, updateData, currentTime) ==
     IF id = BadId
       THEN Reject(400, "Invalid ID format")
     ELSE IF actor.role = NoRole \/ actor.email = NoEmail
       THEN Reject(400, "Role and email are required")
     ELSE IF InvalidAction(action)
       THEN Reject(400, "Invalid action specified")
     ELSE IF id \notin DOMAIN requests
       THEN Reject(404, "Blood request not found")
     ELSE
       LET existingRequest == requests[id]
           currentStatus == CurrentStatus(existingRequest)
       IN  CASE action = "update" ->
                  IF UpdateForbidden(existingRequest, actor)
                    THEN Reject(403, "Not authorized to update this request")
                  ELSE IF status # NoStatusValue /\ Throws(existingRequest)
                    THEN Reject(500, "Server error")
                  ELSE Store(id, FinalUpdate(existingRequest, status, actor,
                                             updateData, currentTime),
                             "Request updated successfully")
             [] action = "complete" ->
                  IF CompleteForbidden(existingRequest, actor)
                    THEN Reject(403, "Not authorized to complete this request")
                  ELSE IF CompleteIllegal(currentStatus)
                    THEN Reject(400, "Can only complete in-progress requests")
                  ELSE Store(id, TransitionUpdate(existingRequest, "completed",
                                                  actor, currentTime),
                             "Request completed successfully")
             [] action = "cancel" ->
                  IF CancelForbidden(existingRequest, actor)
                    THEN Reject(403, "Only requester or admin can cancel request")
                  ELSE IF CancelIllegal(currentStatus)
                    THEN Reject(400, "Can only cancel pending or in-progress requests")
                  ELSE Store(id, TransitionUpdate(existingRequest, "cancelled",
                                                  actor, currentTime),
                             "Request cancelled successfully")
             [] OTHER -> Reject(400, "Invalid action specified")

\* The same call with no other field in its body, handled at StartTime.
Patch(id, actor, action, status) ==
  PatchAt(id, actor, action, status, NoUpdateData, StartTime)

\* ------------------------------------------------------------------ delete
\* role !== "admin" && request.requester?.email !== email
DeleteForbidden(doc, actor) ==
  /\ actor.role # "admin"
  /\ doc.requester # actor.email

\* status.current is neither "pending" nor "cancelled"
DeleteIllegal(doc) == doc.status.current \notin {"pending", "cancelled"}

\* DELETE /blood-requests/:id
Delete(id, actor) ==
     IF id = BadId
       THEN Reject(400, "Invalid ID format")
     ELSE IF actor.email = NoEmail
       THEN Reject(400, "Requester email is required for verification")
     ELSE IF id \notin DOMAIN requests
       THEN Reject(404, "Blood request not found")
     ELSE IF DeleteForbidden(requests[id], actor)
       THEN Reject(403, "You are not authorized to delete this request")
     ELSE IF Throws(requests[id])
       THEN Reject(500, "Server error")
     ELSE IF DeleteIllegal(requests[id])
       THEN Reject(403, "Can only delete requests with 'pending' or 'cancelled' status")
     ELSE Outcome(200, "Blood request deleted successfully",
                  [i \in DOMAIN requests \ {id} |-> requests[i]], nextId)

\* ----------------------------------------------------------- specification
\* No call of respond is followed.
NoReply == [absent |-> TRUE]
Idle == [call |-> NoReply, reply |-> NoReply]

\* The clients whose calls overlap under SpecRace, and a client that has
\* made no call.
RaceProcs == {"p", "q"}
NoCall == [pc |-> "idle"]

Init ==
  /\ requests = <<>>
  /\ nextId = 1
  /\ sent = Idle
  /\ inflight = [p \in RaceProcs |-> NoCall]

HistoryLen(doc) == IF doc.status = NoStatus THEN 0 ELSE Len(doc.status.history)

RECURSIVE HistoryTotal(_, _)
HistoryTotal(reqs, S) ==
  IF S = {} THEN 0
  ELSE LET id == CHOOSE x \in S : TRUE
       IN  HistoryLen(reqs[id]) + HistoryTotal(reqs, S \ {id})

\* The runs the model explores: at most MaxReq inserts and MaxHist history
\* entries.
WithinBounds ==
  /\ nextId' <= MaxReq + 1
  /\ HistoryTotal(requests', DOMAIN requests') <= MaxHist

\* The call is handled: the collection becomes the one its outcome names.
Handled(outcome) ==
  /\ requests' = outcome.requests
  /\ nextId' = outcome.nextId
  /\ sent' = sent
  /\ inflight' = inflight

CreateStep == \E body \in CreateBodies : Handled(Create(body)) /\ WithinBounds

PatchStep ==
  \E c \in PatchCalls :
    Handled(Patch(c.id, c.actor, c.action, c.status)) /\ WithinBounds

DeleteStep == \E c \in DeleteCalls : Handled(Delete(c.id, c.actor)) /\ WithinBounds

\* A list call reads the collection and leaves it as it is.
ListStep ==
  \E c \in ListCalls :
    Handled(List(c.email, c.role, c.page, c.limit)) /\ WithinBounds

Next ==
  \/ CreateStep
  \/ PatchStep
  \/ DeleteStep
  \/ ListStep

Spec == Init /\ [][Next]_vars

\* ---------------------------------------------------------------- ledger
\* Retention length of status.history (spec section 3).
K == 10
\* Longest status.history SpecLedger builds.
MaxLedger == 11

Admin == [email |-> "c@x", role |-> "admin"]

\* One request taken through a long run of transitions by an admin.
LedgerCreate ==
  /\ Handled(Create(Body("a@x", "b@x", FreshStatus("pending"))))
  /\ nextId' <= 2

LedgerPatch ==
  /\ \/ Handled(Patch(1, Admin, "update", "inprogress"))
     \/ Handled(Patch(1, Admin, "update", "pending"))
     \/ Handled(Patch(1, Admin, "complete", NoStatusValue))
     \/ Handled(Patch(1, Admin, "cancel", NoStatusValue))
  /\ HistoryTotal(requests', DOMAIN requests') <= MaxLedger

LedgerNext ==
  \/ LedgerCreate
  \/ LedgerPatch

SpecLedger == Init /\ [][LedgerNext]_vars

\* --------------------------------------------------------------- respond
\* The status codes of the calls of respond in index.js, and the codes at and
\* around the ends of the range 200..299.
StatusCodes == {100, 199, 200, 201, 204, 299, 300, 301, 400, 403, 404, 409, 500}

\* Values of the data argument: none, null, an empty and a non-empty array,
\* a document.
DataArgs ==
  { Undefined, Null, ArrayOf(<<>>), ArrayOf(<<"document">>), ObjectOf("document") }

\* Values of the meta argument: {}, one property, the meta of paginate.
MetaArgs ==
  { EmptyMeta,
    [hasMore |-> FALSE],
    [total |-> 0, page |-> 1, limit |-> 10, totalPages |-> 0,
     hasNext |-> FALSE, hasPrev |-> FALSE] }

RespondCalls ==
  { [status |-> status, message |-> "message", data |-> data, meta |-> meta] :
      status \in StatusCodes, data \in DataArgs, meta \in MetaArgs }

\* A call of respond is about to be made.
InitRespond ==
  /\ requests = <<>>
  /\ nextId = 1
  /\ sent \in { [call |-> c, reply |-> NoReply] : c \in RespondCalls }
  /\ inflight = [p \in RaceProcs |-> NoCall]

\* respond builds the reply and sends it.
RespondStep ==
  /\ sent.reply = NoReply
  /\ sent' = [sent EXCEPT !.reply =
                respondWith(sent.call.status, sent.call.message,
                            sent.call.data, sent.call.meta)]
  /\ UNCHANGED <<requests, nextId, inflight>>

SpecRespond == InitRespond /\ [][RespondStep]_vars

\* ---------------------------------------------------------------- fields
\* Longest status.history SpecFields builds.
MaxFieldHist == 3

\* Values of updateData, the fields of a PATCH body besides role, email, name,
\* action and status: none, the requester-editable fields, a body that names
\* updatedAt itself, a body that names requester and createdAt, and a body
\* that names the donor.
FieldUpdates ==
  { NoUpdateData,
    [recipient |-> "recipient1"],
    [donationInfo |-> "donationInfo1", location |-> "location1"],
    [updatedAt |-> StartTime],
    [requester |-> "c@x", createdAt |-> StartTime + 1],
    [donor |-> "a@x"] }

FieldCall(actor, action, status, updateData, currentTime) ==
  [actor |-> actor, action |-> action, status |-> status,
   updateData |-> updateData, currentTime |-> currentTime]

\* Calls of PATCH /blood-requests/:id on the first request: updates with and
\* without a status, and complete and cancel, by every identity at every
\* instant.
FieldCalls ==
  { FieldCall(actor, "update", status, updateData, currentTime) :
      actor \in ValidActors, status \in {NoStatusValue, "inprogress"},
      updateData \in FieldUpdates, currentTime \in Times }
  \cup
  { FieldCall(actor, action, NoStatusValue, NoUpdateData, currentTime) :
      actor \in ValidActors, action \in {"complete", "cancel"},
      currentTime \in Times }

\* The outcome of a call of FieldCalls.
FieldPatch(c) ==
  PatchAt(1, c.actor, c.action, c.status, c.updateData, c.currentTime)

\* One direct request from a@x to b@x and the calls made on it.
FieldsCreate ==
  /\ Handled(Create(Body("a@x", "b@x", FreshStatus("pending"))))
  /\ nextId' <= 2

FieldsPatch ==
  \E c \in FieldCalls :
    /\ Handled(FieldPatch(c))
    /\ HistoryTotal(requests', DOMAIN requests') <= MaxFieldHist

FieldsNext ==
  \/ FieldsCreate
  \/ FieldsPatch

SpecFields == Init /\ [][FieldsNext]_vars

\* ------------------------------------------------------------------ race
\* Number of documents SpecRace inserts, and of status.history entries its
\* collection holds.
MaxRaceReq == 2
MaxRaceHist == 3

Requester == [email |-> "a@x", role |-> "requester"]
Donor == [email |-> "b@x", role |-> "donor"]
\* The requester a@x under a role string that is no role of the system.
Owner == [email |-> "a@x", role |-> "owner"]

\* The calls that overlap: creates of the same direct request of a@x to b@x,
\* creates of the same request whose requester e-mail is null and whose donor
\* is missing (the one pair the filters of the creation checks match), and on
\* the first request an update to inprogress by the admin, complete by the
\* donor, cancel and delete by the requester, and cancel by the requester
\* under the role "owner".
RaceBody == Body("a@x", "b@x", FreshStatus("pending"))
RaceBodyUnnamed == Body(NullEmail, NoEmail, FreshStatus("pending"))

RaceCreateCalls ==
  { [op |-> "create", body |-> RaceBody],
    [op |-> "create", body |-> RaceBodyUnnamed] }

RacePatchCalls ==
  { [op |-> "patch", id |-> 1, actor |-> Admin, action |-> "update",
     status |-> "inprogress"],
    [op |-> "patch", id |-> 1, actor |-> Donor, action |-> "complete",
     status |-> NoStatusValue],
    [op |-> "patch", id |-> 1, actor |-> Requester, action |-> "cancel",
     status |-> NoStatusValue],
    [op |-> "patch", id |-> 1, actor |-> Owner, action |-> "cancel",
     status |-> NoStatusValue] }

RaceDeleteCalls == { [op |-> "delete", id |-> 1, actor |-> Requester] }

\* The handler has answered: the call, the status of its reply, and whether
\* it returned after its read ("read") or after its write ("write").
Answered(call, status, at) ==
  [pc |-> "done", call |-> call, status |-> status, at |-> at]

\* The client has no call in progress.
Free(p) == inflight[p].pc \in {"idle", "done"}

InsertOneUnlessPaired(reqs, nid, body) ==
  IF \E id \in DOMAIN reqs :
       /\ reqs[id].requester = body.requester
       /\ reqs[id].donor = body.donor
       /\ reqs[id].status.current \in {"pending", "inprogress"}
    THEN [requests |-> reqs, nextId |-> nid]
    ELSE [requests |-> reqs @@ (nid :> NewDocument(body)), nextId |-> nid + 1]

\* insertOne(newBloodRequest)
InsertOne(reqs, nid, body) ==
  [requests |-> reqs @@ (nid :> NewDocument(body)), nextId |-> nid + 1]

\* finalUpdate, built from the document the handler read.
FinalUpdateSet(existingRequest, status, actor, updateData, currentTime) ==
  StatusFields(existingRequest, status, actor, currentTime)
    @@ [updatedAt |-> currentTime]
    @@ updateData

\* completeUpdate / cancelUpdate, built from the document the handler read:
\* "status.current", "status.history" and updatedAt.
TransitionSet(existingRequest, target, actor, currentTime) ==
  [status |->
     [current |-> target,
      history |-> AppendEntry(existingRequest.status.history,
                              HistoryEntry(target, actor, currentTime))],
   updatedAt |-> currentTime]

\* The $set object of the call, built from the document the handler read.
UpdateSet(existingRequest, c) ==
  CASE c.action = "update" ->
         FinalUpdateSet(existingRequest, c.status, c.actor, NoUpdateData, StartTime)
    [] c.action = "complete" ->
         TransitionSet(existingRequest, "completed", c.actor, StartTime)
    [] c.action = "cancel" ->
         TransitionSet(existingRequest, "cancelled", c.actor, StartTime)

UpdateFilterWithStatus(reqs, id, currentStatus) ==
  { i \in DOMAIN reqs : i = id /\ CurrentStatus(reqs[i]) = currentStatus }

\* The documents matching the filter {_id: id} of updateOne.
UpdateFilter(reqs, id, currentStatus) == { i \in DOMAIN reqs : i = id }

MatchedCountIgnored(reqs, id, currentStatus) == 1

\* updateResult.matchedCount
MatchedCount(reqs, id, currentStatus) ==
  Cardinality(UpdateFilter(reqs, id, currentStatus))

\* updateOne({_id: id}, {$set: set}) and the reply that follows it: 404 when
\* no document matched, 200 otherwise. w is the call in progress.
PatchWrite(reqs, w) ==
  [requests |->
     [i \in DOMAIN reqs |->
        IF i \in UpdateFilter(reqs, w.call.id, w.currentStatus)
          THEN SetFields(reqs[i], w.set)
          ELSE reqs[i]],
   status |-> IF MatchedCount(reqs, w.call.id, w.currentStatus) = 0
                THEN 404 ELSE 200]

\* deleteOne({_id: id}) and the reply that follows it: 200 when
\* deletedCount is 1, 404 otherwise.
DeleteWrite(reqs, w) ==
  [requests |-> [i \in DOMAIN reqs \ {w.call.id} |-> reqs[i]],
   status |-> IF w.call.id \in DOMAIN reqs THEN 200 ELSE 404]

\* POST: the self-donation check and findOne for existingPair.
RaceCreateBegin ==
  \E p \in RaceProcs : \E c \in RaceCreateCalls :
    /\ Free(p)
    /\ inflight' = [inflight EXCEPT ![p] =
         IF SelfDonation(c.body) THEN Answered(c, 403, "read")
         ELSE IF ExistingPair(c.body) # {} THEN Answered(c, 409, "read")
         ELSE [pc |-> "findBusy", call |-> c]]
    /\ UNCHANGED <<requests, nextId, sent>>

\* POST: findOne for donorBusy.
RaceCreateFindBusy ==
  \E p \in RaceProcs :
    /\ inflight[p].pc = "findBusy"
    /\ inflight' = [inflight EXCEPT ![p] =
         IF DonorBusy(inflight[p].call.body) # {}
           THEN Answered(inflight[p].call, 409, "read")
           ELSE [pc |-> "insert", call |-> inflight[p].call]]
    /\ UNCHANGED <<requests, nextId, sent>>

\* POST: insertOne and the reply 201.
RaceCreateInsert ==
  \E p \in RaceProcs :
    /\ inflight[p].pc = "insert"
    /\ nextId <= MaxRaceReq
    /\ LET inserted == InsertOne(requests, nextId, inflight[p].call.body)
       IN  /\ requests' = inserted.requests
           /\ nextId' = inserted.nextId
    /\ inflight' = [inflight EXCEPT ![p] = Answered(inflight[p].call, 201, "write")]
    /\ UNCHANGED sent

\* PATCH: the checks of the handler on the document findOne returns; a call
\* that passes them goes on to updateOne with the $set object built from that
\* document.
RacePatchRead ==
  \E p \in RaceProcs : \E c \in RacePatchCalls :
    /\ Free(p)
    /\ LET reply == Patch(c.id, c.actor, c.action, c.status).resp
       IN  inflight' = [inflight EXCEPT ![p] =
             IF reply.status # 200 THEN Answered(c, reply.status, "read")
             ELSE [pc |-> "updateOne", call |-> c,
                   currentStatus |-> CurrentStatus(requests[c.id]),
                   set |-> UpdateSet(requests[c.id], c)]]
    /\ UNCHANGED <<requests, nextId, sent>>

\* PATCH: updateOne and the reply.
RacePatchWrite ==
  \E p \in RaceProcs :
    /\ inflight[p].pc = "updateOne"
    /\ LET written == PatchWrite(requests, inflight[p])
       IN  /\ requests' = written.requests
           /\ inflight' = [inflight EXCEPT ![p] =
                 Answered(inflight[p].call, written.status, "write")]
    /\ HistoryTotal(requests', DOMAIN requests') <= MaxRaceHist
    /\ UNCHANGED <<nextId, sent>>

\* DELETE: the checks of the handler on the document findOne returns.
RaceDeleteRead ==
  \E p \in RaceProcs : \E c \in RaceDeleteCalls :
    /\ Free(p)
    /\ LET reply == Delete(c.id, c.actor).resp
       IN  inflight' = [inflight EXCEPT ![p] =
             IF reply.status # 200 THEN Answered(c, reply.status, "read")
             ELSE [pc |-> "deleteOne", call |-> c]]
    /\ UNCHANGED <<requests, nextId, sent>>

\* DELETE: deleteOne and the reply.
RaceDeleteWrite ==
  \E p \in RaceProcs :
    /\ inflight[p].pc = "deleteOne"
    /\ LET written == DeleteWrite(requests, inflight[p])
       IN  /\ requests' = written.requests
           /\ inflight' = [inflight EXCEPT ![p] =
                 Answered(inflight[p].call, written.status, "write")]
    /\ UNCHANGED <<nextId, sent>>

RaceNext ==
  \/ RaceCreateBegin
  \/ RaceCreateFindBusy
  \/ RaceCreateInsert
  \/ RacePatchRead
  \/ RacePatchWrite
  \/ RaceDeleteRead
  \/ RaceDeleteWrite

\* The handlers run concurrently: each repository operation is one step.
SpecRace == Init /\ [][RaceNext]_vars

\* ------------------------------------------------------------------ claims
Statuses == {"pending", "inprogress", "completed", "cancelled"}

Edges ==
  { <<"pending", "inprogress">>, <<"pending", "cancelled">>,
    <<"inprogress", "completed">>, <<"inprogress", "cancelled">> }

HasStatus(doc) == doc.status # NoStatus

Active(doc) == HasStatus(doc) /\ doc.status.current \in {"pending", "inprogress"}

InProgress(doc) == HasStatus(doc) /\ doc.status.current = "inprogress"

\* The documents a step inserts.
Inserted == DOMAIN requests' \ DOMAIN requests

\* C1: every stored status.current is one of pending, inprogress, completed,
\* cancelled, and every change of a request's status.current is one of the
\* four edges of the state graph.
C1_StatusFollowsGraph ==
  [][\A id \in DOMAIN requests' :
       HasStatus(requests'[id]) =>
         /\ requests'[id].status.current \in Statuses
         /\ (/\ id \in DOMAIN requests
             /\ HasStatus(requests[id])
             /\ requests[id].status.current # requests'[id].status.current)
            => <<requests[id].status.current, requests'[id].status.current>>
                 \in Edges]_vars

\* The actor may use the update action on the document: the owning requester,
\* an admin or a volunteer.
MayUpdate(doc, actor) ==
  actor.email = doc.requester \/ actor.role \in {"admin", "volunteer"}

\* The update calls that carry a status.current.
StatusUpdates ==
  { c \in PatchCalls : c.action = "update" /\ c.status # NoStatusValue }

\* C2: an update by an authorized actor whose status.current is not one edge
\* away from the request's current status is answered 400 and leaves the
\* collection unchanged.
C2_UpdateRejectsInvalidTransition ==
  [][\A c \in StatusUpdates :
       (/\ c.id \in DOMAIN requests
        /\ HasStatus(requests[c.id])
        /\ MayUpdate(requests[c.id], c.actor)
        /\ <<requests[c.id].status.current, c.status>> \notin Edges
        /\ Handled(Patch(c.id, c.actor, c.action, c.status)))
       => /\ Patch(c.id, c.actor, c.action, c.status).resp.status = 400
          /\ requests' = requests]_vars

\* The action that is illegal from the status: complete on a pending
\* request, cancel on a completed one.
IllegalFinish(doc) ==
  IF ~HasStatus(doc) THEN {}
  ELSE IF doc.status.current = "pending" THEN {"complete"}
  ELSE IF doc.status.current = "completed" THEN {"cancel"}
  ELSE {}

\* The actor may use the action on the document: complete is open to the
\* requester, the donor, admins and volunteers, cancel to the requester and
\* admins.
MayFinish(doc, actor, action) ==
  IF action = "complete"
    THEN \/ actor.email \in {doc.requester, doc.donor}
         \/ actor.role \in {"admin", "volunteer"}
    ELSE actor.email = doc.requester \/ actor.role = "admin"

InvalidTransitionMessages ==
  { "Can only complete in-progress requests",
    "Can only cancel pending or in-progress requests" }

\* The call's outcome is the response 400 of an invalid transition, with the
\* collection as it was.
InvalidTransition(outcome) ==
  /\ outcome.resp.status = 400
  /\ outcome.resp.message \in InvalidTransitionMessages
  /\ outcome.requests = requests

\* C3 as stated: any well-formed complete on a pending request, or cancel on a
\* completed one, is answered 400 and leaves the request unchanged.
C3_IllegalFinishAlways400 ==
  \A id \in DOMAIN requests : \A action \in IllegalFinish(requests[id]) :
    \A actor \in ValidActors :
      InvalidTransition(Patch(id, actor, action, NoStatusValue))

\* C3 amended: complete on a pending request, or cancel on a completed one,
\* leaves the collection unchanged; an actor authorized for the action is
\* answered 400 (invalid transition), any other actor 403.
C3_IllegalFinishRejected ==
  \A id \in DOMAIN requests : \A action \in IllegalFinish(requests[id]) :
    \A actor \in ValidActors :
      LET outcome == Patch(id, actor, action, NoStatusValue)
      IN  IF MayFinish(requests[id], actor, action)
            THEN InvalidTransition(outcome)
            ELSE outcome.resp.status = 403 /\ outcome.requests = requests

\* A completed request on which cancel is answered 400 for its requester and
\* 403 for its donor.
C3_Witness ==
  \E id \in DOMAIN requests :
    /\ HasStatus(requests[id])
    /\ requests[id].status.current = "completed"
    /\ requests[id].requester = "a@x"
    /\ requests[id].donor = "b@x"
    /\ Patch(id, [email |-> "a@x", role |-> "donor"], "cancel", NoStatusValue).resp
         = respond(400, "Can only cancel pending or in-progress requests")
    /\ Patch(id, [email |-> "b@x", role |-> "donor"], "cancel", NoStatusValue).resp
         = respond(403, "Only requester or admin can cancel request")

\* The bodies whose requester.email equals their donor.email.
SelfBodies == { body \in CreateBodies : body.requester = body.donor }

\* C4: a create whose requester.email equals its donor.email is answered 403
\* and inserts nothing, and every document a create inserts has
\* requester.email different from donor.email.
C4_SelfReferentialRejected ==
  \A body \in CreateBodies :
    LET outcome == Create(body)
    IN  /\ body \in SelfBodies =>
             (outcome.resp.status = 403 /\ outcome.requests = requests)
        /\ \A id \in DOMAIN outcome.requests \ DOMAIN requests :
             outcome.requests[id].requester # outcome.requests[id].donor

\* With a request stored, a create for oneself is answered 403 and another
\* body is inserted.
C4_Witness ==
  /\ DOMAIN requests # {}
  /\ Create(Body("a@x", "a@x", FreshStatus("pending"))).resp
       = respond(403, "You cannot create a blood request for yourself")
  /\ Create(Body("c@x", "b@x", FreshStatus("pending"))).resp.status = 201

\* C5: a create whose requester/donor pair equals that of a stored pending or
\* inprogress request is answered 409 and inserts nothing.
C5_DuplicatePairingRejected ==
  [][\A body \in CreateBodies :
       (/\ \E id \in DOMAIN requests :
              /\ requests[id].requester = body.requester
              /\ requests[id].donor = body.donor
              /\ Active(requests[id])
        /\ Handled(Create(body)))
       => (Create(body).resp.status = 409 /\ requests' = requests)]_vars

\* C6: for every requester/donor pair at most one stored request with that
\* pair is pending or inprogress.
C6_OneActivePerPair ==
  \A i, j \in DOMAIN requests :
    (/\ i # j
     /\ requests[i].requester = requests[j].requester
     /\ requests[i].donor = requests[j].donor)
    => ~(Active(requests[i]) /\ Active(requests[j]))

\* C7: for every donor at most one stored request naming that donor is
\* inprogress.
C7_OneInProgressPerDonor ==
  \A i, j \in DOMAIN requests :
    (/\ i # j
     /\ ~Nullish(requests[i].donor)
     /\ requests[i].donor = requests[j].donor)
    => ~(InProgress(requests[i]) /\ InProgress(requests[j]))

\* C8: a create naming a donor who has a stored inprogress request, with any
\* requester, is answered 409 and inserts nothing.
C8_BusyDonorRejected ==
  [][\A body \in CreateBodies :
       (/\ ~Nullish(body.donor)
        /\ \E id \in DOMAIN requests :
              requests[id].donor = body.donor /\ InProgress(requests[id])
        /\ Handled(Create(body)))
       => (Create(body).resp.status = 409 /\ requests' = requests)]_vars

\* C9: every document a create inserts has status.current = pending and a
\* status.history of exactly one entry, whose status is pending.
C9_CreatedPending ==
  [][\A id \in Inserted :
       /\ HasStatus(requests'[id])
       /\ requests'[id].status.current = "pending"
       /\ Len(requests'[id].status.history) = 1
       /\ requests'[id].status.history[1].status = "pending"]_vars

\* C10: the status.history of every stored request has at most K entries.
C10_HistoryWithinK ==
  \A id \in DOMAIN requests : HistoryLen(requests[id]) <= K

\* The calls that ask for a transition: an update carrying a status, a
\* complete, a cancel.
TransitionCalls ==
  { c \in FieldCalls : c.action # "update" \/ c.status # NoStatusValue }

\* The status the call asks for.
Target(c) ==
  IF c.action = "complete" THEN "completed"
  ELSE IF c.action = "cancel" THEN "cancelled"
  ELSE c.status

\* C11: every successful transition (update carrying a status, complete,
\* cancel) stores the target in status.current, keeps the history it found and
\* appends one entry as its last element, whose status is the target and whose
\* changedBy is the acting identity, and sets updatedAt to the time of the
\* call, in the one document its outcome stores.
C11_TransitionRecorded ==
  \A c \in TransitionCalls :
    LET outcome == FieldPatch(c)
    IN  (1 \in DOMAIN requests /\ outcome.resp.status = 200) =>
          LET old == requests[1].status.history
              new == outcome.requests[1]
          IN  /\ new.status.current = Target(c)
              /\ Len(new.status.history) = Len(old) + 1
              /\ SubSeq(new.status.history, 1, Len(old)) = old
              /\ new.status.history[Len(old) + 1].status = Target(c)
              /\ new.status.history[Len(old) + 1].changedBy = c.actor
              /\ new.updatedAt = c.currentTime

\* The request after update-to-inprogress by the admin and complete by the
\* donor b@x at a later instant: three entries, current = completed.
C11_Witness ==
  /\ 1 \in DOMAIN requests
  /\ requests[1].status.current = "completed"
  /\ Len(requests[1].status.history) = 3
  /\ requests[1].status.history[2].status = "inprogress"
  /\ requests[1].status.history[2].changedBy = Admin
  /\ requests[1].status.history[3].status = "completed"
  /\ requests[1].status.history[3].changedBy = [email |-> "b@x", role |-> "donor"]
  /\ requests[1].updatedAt = StartTime + 1

\* C12: in every reachable state the donationStatus of every stored request
\* equals its status.current.
C12_DonationStatusMirrors ==
  \A id \in DOMAIN requests :
    HasStatus(requests[id]) =>
      requests[id].donationStatus = requests[id].status.current

\* The well-formed calls of the three actions.
ActionCalls ==
  { c \in PatchCalls :
      c.id \in Ids /\ c.actor \in ValidActors
        /\ c.action \in {"update", "complete", "cancel"} }

\* The actor may use the action on the document.
MayAct(doc, actor, action) ==
  IF action = "update" THEN MayUpdate(doc, actor)
  ELSE MayFinish(doc, actor, action)

\* C13: a call of update, complete or cancel on a stored request by an actor
\* who is not authorized for the action (update: the owning requester, an
\* admin or a volunteer; complete: these or the bound donor; cancel: the
\* owning requester or an admin) is answered 403 and leaves the collection
\* unchanged.
C13_OnlyAuthorizedActs ==
  \A c \in ActionCalls :
    c.id \in DOMAIN requests =>
      LET outcome == Patch(c.id, c.actor, c.action, c.status)
      IN  ~MayAct(requests[c.id], c.actor, c.action) =>
            /\ outcome.resp.status = 403
            /\ ~outcome.resp.success
            /\ outcome.requests = requests

\* A request of a@x to b@x in progress: cancel is answered 403 for the donor
\* and for a volunteer and update is answered 403 for the donor, while the
\* donor may complete and the requester may cancel.
C13_Witness ==
  \E id \in DOMAIN requests :
    /\ requests[id].requester = "a@x"
    /\ requests[id].donor = "b@x"
    /\ InProgress(requests[id])
    /\ Patch(id, [email |-> "b@x", role |-> "donor"], "cancel", NoStatusValue)
         .resp.status = 403
    /\ Patch(id, [email |-> "c@x", role |-> "volunteer"], "cancel", NoStatusValue)
         .resp.status = 403
    /\ Patch(id, [email |-> "b@x", role |-> "donor"], "update", "pending")
         .resp.status = 403
    /\ Patch(id, [email |-> "b@x", role |-> "donor"], "complete", NoStatusValue)
         .resp.status = 200
    /\ Patch(id, [email |-> "a@x", role |-> "donor"], "cancel", NoStatusValue)
         .resp.status = 200

\* The delete calls that name an actor by e-mail.
ActorDeletes == { c \in DeleteCalls : c.id \in Ids /\ c.actor.email # NoEmail }

\* The actor may delete the document: the owning requester or an admin.
MayDelete(doc, actor) == actor.email = doc.requester \/ actor.role = "admin"

\* The document is in a status that allows deletion.
Deletable(doc) == HasStatus(doc) /\ doc.status.current \in {"pending", "cancelled"}

Forbidden(resp) ==
  resp = respond(403, "You are not authorized to delete this request")

InvalidState(resp) ==
  resp = respond(403, "Can only delete requests with 'pending' or 'cancelled' status")

\* C14: a delete call on a stored request removes it, and nothing else, if
\* and only if its status.current is pending or cancelled and the actor is the
\* owning requester or an admin; otherwise the collection stays as it was and
\* the call is answered Forbidden (actor) or InvalidState (status).
C14_DeleteIffAllowed ==
  \A c \in ActorDeletes :
    c.id \in DOMAIN requests =>
      LET doc == requests[c.id]
          outcome == Delete(c.id, c.actor)
      IN  IF Deletable(doc) /\ MayDelete(doc, c.actor)
            THEN /\ outcome.resp.success
                 /\ DOMAIN outcome.requests = DOMAIN requests \ {c.id}
                 /\ \A i \in DOMAIN outcome.requests :
                      outcome.requests[i] = requests[i]
            ELSE /\ outcome.requests = requests
                 /\ IF MayDelete(doc, c.actor)
                      THEN InvalidState(outcome.resp)
                      ELSE Forbidden(outcome.resp)

\* The requester-editable fields of a document.
Editable(doc) == <<doc.recipient, doc.donationInfo, doc.location>>

Terminal(doc) == HasStatus(doc) /\ doc.status.current \in {"completed", "cancelled"}

\* C15: an update of a completed or cancelled request, or an update by
\* anyone other than the owning requester, leaves recipient, donationInfo and
\* location of the request as they were.
C15_EditableFieldsGuarded ==
  [][\A c \in FieldCalls :
       (/\ 1 \in DOMAIN requests
        /\ c.action = "update"
        /\ Terminal(requests[1]) \/ c.actor.email # requests[1].requester
        /\ Handled(FieldPatch(c)))
       => Editable(requests'[1]) = Editable(requests[1])]_vars

\* C16: no call of update, complete or cancel changes the requester or the
\* createdAt of a stored request, and every such call that succeeds sets the
\* request's updatedAt to the time of the call.
C16_RequesterAndCreatedAtFixed ==
  [][\A c \in FieldCalls :
       (1 \in DOMAIN requests /\ Handled(FieldPatch(c))) =>
         /\ requests'[1].requester = requests[1].requester
         /\ requests'[1].createdAt = requests[1].createdAt
         /\ FieldPatch(c).resp.success =>
               requests'[1].updatedAt = c.currentTime]_vars

\* C17: in every reachable state every stored request that names a donor has
\* a requester e-mail different from its donor e-mail.
C17_RequesterIsNotDonor ==
  \A id \in DOMAIN requests :
    ~Nullish(requests[id].donor) => requests[id].requester # requests[id].donor

\* The stored requests with the given ids, as documents.
Stored(ids) == { [_id |-> id] @@ requests[id] : id \in ids }

\* The stored requests in which the e-mail is the requester's or the donor's.
Mine(email) ==
  { id \in DOMAIN requests :
      requests[id].requester = email \/ requests[id].donor = email }

\* The documents in the data of a reply.
Returned(resp) == { resp.data.items[n] : n \in 1 .. Len(resp.data.items) }

\* The documents on all pages of the list call, taken together.
AllPages(c) ==
  UNION { Returned(List(c.email, c.role, page, c.limit).resp) :
            page \in 1 .. MaxReq + 1 }

\* The call is answered 200 with a page of at most limit documents and the
\* number of the requests of ids as total; the page holds exactly those
\* requests when limit allows, and the pages together do when it does not.
Lists(c, resp, ids) ==
  /\ resp.status = 200
  /\ resp.success
  /\ Len(resp.data.items) <= c.limit
  /\ resp.meta.total = Cardinality(ids)
  /\ IF Cardinality(ids) <= c.limit
       THEN c.page = 1 => Returned(resp) = Stored(ids)
       ELSE AllPages(c) = Stored(ids)

UnknownActionCalls ==
  { c \in PatchCalls : c.action \notin {"update", "complete", "cancel"} }

\* C19: a PATCH call whose action is none of update, complete, cancel is
\* answered 400 and leaves the collection unchanged, whether or not its id is
\* stored; with a well-formed id, role and e-mail the answer is that the
\* action is invalid.
C19_UnknownActionRejected ==
  \A c \in UnknownActionCalls :
    LET outcome == Patch(c.id, c.actor, c.action, c.status)
    IN  /\ outcome.resp.status = 400
        /\ ~outcome.resp.success
        /\ outcome.requests = requests
        /\ (c.id \in Ids /\ c.actor \in ValidActors) =>
              outcome.resp.message = "Invalid action specified"

\* Request 1 is stored and request 2 is not: the unknown action is answered
\* 400 on both, a known action 404 on request 2.
C19_Witness ==
  /\ DOMAIN requests = {1}
  /\ Patch(1, Admin, "archive", NoStatusValue).resp
       = respond(400, "Invalid action specified")
  /\ Patch(2, Admin, "archive", NoStatusValue).resp
       = respond(400, "Invalid action specified")
  /\ Patch(2, Admin, "cancel", NoStatusValue).resp.status = 404

\* C20: in every reply respond builds, success is true exactly when
\* 200 <= status < 300, and the reply has a meta field exactly when the meta
\* argument has at least one property; the field is then the argument.
C20_RespondEnvelope ==
  sent.reply # NoReply =>
    /\ sent.reply.status = sent.call.status
    /\ sent.reply.success = (200 <= sent.call.status /\ sent.call.status < 300)
    /\ ("meta" \in DOMAIN sent.reply) = (DOMAIN sent.call.meta # {})
    /\ "meta" \in DOMAIN sent.reply => DOMAIN sent.reply.meta = DOMAIN sent.call.meta

\* The reply to respond(res, 299, message, [], {hasMore: false}): a success,
\* with meta.
C20_Witness ==
  /\ sent.reply # NoReply
  /\ sent.call.status = 299
  /\ sent.call.data = ArrayOf(<<>>)
  /\ DOMAIN sent.call.meta = {"hasMore"}
  /\ sent.reply.success
  /\ "meta" \in DOMAIN sent.reply
\* The history new holds the history old as its first entries, unchanged.
Extends(new, old) ==
  Len(new) >= Len(old) /\ SubSeq(new, 1, Len(old)) = old

\* The client's call is at the given repository operation.
At(p, pc) == inflight[p].pc = pc

\* The client's call of the given kind has been answered with the status,
\* after its write.
Wrote(p, op, status) ==
  /\ At(p, "done")
  /\ inflight[p].at = "write"
  /\ inflight[p].call.op = op
  /\ inflight[p].status = status

\* C21: the write of a transition (update to a status, complete, cancel)
\* whose checks passed on the document it read succeeds whenever the document
\* still exists, whatever status.current is stored by then, and stores the
\* transition's target as status.current: the last writer wins.
C21_WriteIgnoresStoredStatus ==
  [][\A p \in RaceProcs :
       (/\ At(p, "updateOne")
        /\ inflight'[p].pc = "done"
        /\ inflight[p].call.id \in DOMAIN requests)
       => /\ inflight'[p].status = 200
          /\ requests'[inflight[p].call.id].status.current
               = inflight[p].set.status.current]_vars

\* complete by the donor and cancel by the requester on request 1 were both
\* answered 200 after their writes: the one written last replaced the
\* terminal status the other had stored.
C21_Witness ==
  \E p, q \in RaceProcs :
    /\ Wrote(p, "patch", 200) /\ inflight[p].call.action = "complete"
    /\ Wrote(q, "patch", 200) /\ inflight[q].call.action = "cancel"
    /\ 1 \in DOMAIN requests
    /\ requests[1].status.current \in {"completed", "cancelled"}

\* C22: the insert of a create call whose checks passed stores the request
\* and is answered 201 whatever has been inserted since the checks ran, so
\* two overlapping creates of the same pair both succeed.
C22_InsertIgnoresLaterPairs ==
  [][\A p \in RaceProcs :
       (At(p, "insert") /\ inflight'[p].pc = "done")
       => /\ inflight'[p].status = 201
          /\ nextId \in DOMAIN requests'
          /\ requests'[nextId] = inflight[p].call.body]_vars

\* Two creates of the same pair were both answered 201 and both requests are
\* stored as pending, in a state in which a further create of the pair is
\* rejected with 409 by the duplicate-pairing check.
C22_Witness ==
  \E p, q \in RaceProcs :
    /\ p # q
    /\ Wrote(p, "create", 201) /\ Wrote(q, "create", 201)
    /\ inflight[p].call = inflight[q].call
    /\ Create(inflight[p].call.body).resp.status = 409
    /\ \E i, j \in DOMAIN requests :
         /\ i # j
         /\ requests[i] = inflight[p].call.body
         /\ requests[j] = inflight[p].call.body

\* C23: under every interleaving, no step removes, reorders or modifies an
\* entry of the status.history of a stored request: the history after the
\* step begins with the history before it (no history here reaches the cap).
C23_HistoryAppendOnly ==
  [][\A id \in DOMAIN requests \cap DOMAIN requests' :
       Extends(requests'[id].status.history, requests[id].status.history)]_vars

\* C24: under every interleaving, a request that a step removes from the
\* store has status.current pending or cancelled when it is removed.
C24_RemovedOnlyWhilePendingOrCancelled ==
  [][\A id \in DOMAIN requests \ DOMAIN requests' :
       requests[id].status.current \in {"pending", "cancelled"}]_vars

\* C25: the write of a transition on a request that has been deleted since
\* the transition read it is answered 404 and leaves the collection as it
\* is; the only id a step adds to the store is the fresh one, so a deleted
\* id never reappears.
C25_WriteOnDeletedIsNotFound ==
  [][/\ \A p \in RaceProcs :
          (/\ At(p, "updateOne")
           /\ inflight'[p].pc = "done"
           /\ inflight[p].call.id \notin DOMAIN requests)
          => inflight'[p].status = 404 /\ requests' = requests
     /\ DOMAIN requests' \ DOMAIN requests \subseteq {nextId}
     /\ nextId' >= nextId
     /\ nextId \in DOMAIN requests' => nextId' > nextId]_vars

\* A transition on request 1 was answered 404 after its write, the delete of
\* request 1 was answered 200, and request 1 is not stored.
C25_Witness ==
  \E p, q \in RaceProcs :
    /\ Wrote(p, "patch", 404)
    /\ Wrote(q, "delete", 200)
    /\ 1 \notin DOMAIN requests

\* The statuses of a rejection.
Rejections == {400, 403, 404, 409}

\* The call left the collection as it was.
Untouched(outcome) ==
  outcome.requests = requests /\ outcome.nextId = nextId

\* The statuses with which the calls of a handler are answered here.
CreateReplies == { Create(body).resp.status : body \in CreateBodies }
PatchReplies ==
  { Patch(c.id, c.actor, c.action, c.status).resp.status : c \in PatchCalls }
DeleteReplies == { Delete(c.id, c.actor).resp.status : c \in DeleteCalls }

\* C26: every create, PATCH or delete call that is answered with a rejection
\* (400, 403, 404, 409) leaves the whole collection exactly as it was.
C26_RejectionWritesNothing ==
  /\ \A body \in CreateBodies :
       Create(body).resp.status \in Rejections => Untouched(Create(body))
  /\ \A c \in PatchCalls :
       LET outcome == Patch(c.id, c.actor, c.action, c.status)
       IN  outcome.resp.status \in Rejections => Untouched(outcome)
  /\ \A c \in DeleteCalls :
       LET outcome == Delete(c.id, c.actor)
       IN  outcome.resp.status \in Rejections => Untouched(outcome)

\* Requests are stored, and among the calls there are creates answered 403
\* and 409, PATCH calls answered 400, 403 and 404 (one of them an invalid
\* transition) and delete calls answered 400, 403 and 404.
C26_Witness ==
  /\ requests # <<>>
  /\ {403, 409} \subseteq CreateReplies
  /\ {400, 403, 404} \subseteq PatchReplies
  /\ \E c \in PatchCalls :
       Patch(c.id, c.actor, c.action, c.status).resp.message
         \in InvalidTransitionMessages
  /\ {400, 403, 404} \subseteq DeleteReplies

\* C27: every successful update sets updatedAt to the time of the call, and
\* an update with no status in its body, or with the status the request has
\* already, leaves status.current and status.history as they were.
C27_UpdateAppendsOnlyOnChange ==
  [][\A c \in FieldCalls :
       (/\ 1 \in DOMAIN requests
        /\ c.action = "update"
        /\ FieldPatch(c).resp.success
        /\ Handled(FieldPatch(c)))
       => /\ requests'[1].updatedAt = c.currentTime
          /\ (c.status = NoStatusValue \/ c.status = requests[1].status.current)
               => requests'[1].status = requests[1].status]_vars

\* The roles of the system.
Roles == {"requester", "donor", "admin", "volunteer", "system"}

\* C28: in every reachable state every entry of every stored status.history
\* has changedBy.role in {requester, donor, admin, volunteer, system}.
C28_ChangedByRoleKnown ==
  \A id \in DOMAIN requests :
    \A n \in 1 .. Len(requests[id].status.history) :
      requests[id].status.history[n].changedBy.role \in Roles

\* The PATCH calls whose id is well-formed.
OrderedCalls == { c \in PatchCalls : c.id \in Ids }

\* The checks of complete and cancel on the current status.
LegalFrom(doc, action) ==
  /\ HasStatus(doc)
  /\ \/ action = "complete" /\ doc.status.current = "inprogress"
     \/ action = "cancel" /\ doc.status.current \in {"pending", "inprogress"}

\* C29: a PATCH call is answered by the first check that fails, in this
\* order: role or e-mail missing (400), action none of update, complete,
\* cancel (400), request not stored (404), actor not authorized for the
\* action (403), and for complete and cancel the action not legal from the
\* current status (400).
C29_FirstFailingCheck ==
  \A c \in OrderedCalls :
    LET resp == Patch(c.id, c.actor, c.action, c.status).resp
    IN  IF c.actor.role = NoRole \/ c.actor.email = NoEmail
          THEN resp = respond(400, "Role and email are required")
        ELSE IF c.action \notin {"update", "complete", "cancel"}
          THEN resp = respond(400, "Invalid action specified")
        ELSE IF c.id \notin DOMAIN requests
          THEN resp = respond(404, "Blood request not found")
        ELSE IF ~MayAct(requests[c.id], c.actor, c.action)
          THEN resp.status = 403
        ELSE IF c.action # "update" /\ ~LegalFrom(requests[c.id], c.action)
          THEN resp.status = 400 /\ resp.message \in InvalidTransitionMessages
        ELSE resp.status \notin {403, 404}

\* Request 1 of a@x to b@x is completed and request 2 is not stored: a call
\* without role and with an unknown action is answered for the role, an
\* unknown action on request 2 is answered 400 and cancel on it 404, and
\* cancel on request 1 is answered 403 for the donor and 400 for the
\* requester.
C29_Witness ==
  /\ DOMAIN requests = {1}
  /\ requests[1].requester = "a@x"
  /\ requests[1].donor = "b@x"
  /\ HasStatus(requests[1])
  /\ requests[1].status.current = "completed"
  /\ Patch(1, NoRoleActor, "archive", NoStatusValue).resp
       = respond(400, "Role and email are required")
  /\ Patch(2, Admin, NoAction, NoStatusValue).resp
       = respond(400, "Invalid action specified")
  /\ Patch(2, [email |-> "b@x", role |-> "donor"], "cancel", NoStatusValue).resp
       = respond(404, "Blood request not found")
  /\ Patch(1, [email |-> "b@x", role |-> "donor"], "cancel", NoStatusValue).resp
       = respond(403, "Only requester or admin can cancel request")
  /\ Patch(1, [email |-> "a@x", role |-> "donor"], "cancel", NoStatusValue).resp
       = respond(400, "Can only cancel pending or in-progress requests")

====
